---- MODULE Spec2Model ----
(***************************************************************************)
(* Model of src/work.py: the SQL validation gate.                          *)
(*                                                                         *)
(* Text is modelled by TLA+ strings, which TLC treats as sequences of      *)
(* characters (Len, SubSeq and \o apply to them), so the substring,        *)
(* case-folding, trimming and suffix tests of the program are computed     *)
(* character by character as Python computes them.  All documents and      *)
(* paths of the model are ASCII.                                           *)
(***************************************************************************)
EXTENDS Integers, Sequences, FiniteSets, TLC

VARIABLES
    pc,             \* position of main(): "start", "filter", "loop", "summary", "done"
    git_outcome,    \* what `git diff --name-only HEAD~1 HEAD` does in this run
    git_output,     \* the text git writes when it succeeds
    changed_files,  \* main: changed_files
    sql_files,      \* main: sql_files
    idx,            \* number of files the for loop of main has processed
    valid_count,    \* main: valid_count
    total_count,    \* main: total_count
    failed_files,   \* main: failed_files
    exit_code,      \* argument of sys.exit; -1 while the process is running
    top_error,      \* TRUE once the outer `except Exception` of main has caught
    validated,      \* history: the paths handed to validate_sql_file, in call order
    verdicts,       \* history: the is_valid value returned by each of those calls
    fn,             \* the function applied by the last call ("none" before any call)
    arg_path,       \* its file_path argument
    arg_text,       \* its sql_content argument (the content read, for validate_sql_file)
    arg_file,       \* the file-system entry validate_sql_file found at file_path
    arg_parse,      \* what sqlparse.parse did during the call
    ret             \* the value the call returned

vars == <<pc, git_outcome, git_output, changed_files, sql_files, idx, valid_count,
          total_count, failed_files, exit_code, top_error, validated, verdicts,
          fn, arg_path, arg_text, arg_file, arg_parse, ret>>

mainVars == <<pc, git_outcome, git_output, changed_files, sql_files, idx, valid_count,
              total_count, failed_files, exit_code, top_error, validated, verdicts>>

callVars == <<fn, arg_path, arg_text, arg_file, arg_parse, ret>>

(***************************************************************************)
(* Bounds.                                                                 *)
(***************************************************************************)
MaxFiles == 2   \* lines of git output in a run of main
MaxWords == 3   \* words of a generated document

(***************************************************************************)
(* Python str primitives.                                                  *)
(***************************************************************************)
LowerLetters == "abcdefghijklmnopqrstuvwxyz"
UpperLetters == "ABCDEFGHIJKLMNOPQRSTUVWXYZ"
Letters == 1..Len(LowerLetters)

Whitespace == {" ", "\t", "\n", "\r"}

\* The back-quote character of the patterns.  A TLA+ string cannot hold the
\* back-quote itself, so documents of the model write it as an apostrophe;
\* the program treats the apostrophe as an ordinary character.
Backquote == "'"

CharAt(s, i) == SubSeq(s, i, i)

LowerSet == {CharAt(LowerLetters, i) : i \in Letters}
UpperSet == {CharAt(UpperLetters, i) : i \in Letters}

\* The letter of alphabet `to` at the position c has in alphabet `from`.
Fold(from, to) == [c \in {CharAt(from, i) : i \in Letters} |->
                      CharAt(to, CHOOSE i \in Letters : CharAt(from, i) = c)]

ToUpper == Fold(LowerLetters, UpperLetters)
ToLower == Fold(UpperLetters, LowerLetters)

upper_char(c) == IF c \in LowerSet THEN ToUpper[c] ELSE c

lower_char(c) == IF c \in UpperSet THEN ToLower[c] ELSE c

RECURSIVE upper(_)
upper(s) == IF s = "" THEN "" ELSE upper_char(CharAt(s, 1)) \o upper(SubSeq(s, 2, Len(s)))

RECURSIVE lower(_)
lower(s) == IF s = "" THEN "" ELSE lower_char(CharAt(s, 1)) \o lower(SubSeq(s, 2, Len(s)))

\* `sub in s`
contains(sub, s) ==
    \E i \in 1..(Len(s) - Len(sub) + 1) : SubSeq(s, i, i + Len(sub) - 1) = sub

endswith(s, suffix) ==
    /\ Len(s) >= Len(suffix)
    /\ SubSeq(s, Len(s) - Len(suffix) + 1, Len(s)) = suffix

RECURSIVE lstrip(_)
lstrip(s) ==
    IF s # "" /\ CharAt(s, 1) \in Whitespace THEN lstrip(SubSeq(s, 2, Len(s))) ELSE s

RECURSIVE rstrip(_)
rstrip(s) ==
    IF s # "" /\ CharAt(s, Len(s)) \in Whitespace
    THEN rstrip(SubSeq(s, 1, Len(s) - 1)) ELSE s

strip(s) == rstrip(lstrip(s))

\* str.splitlines: the scan from position i, cur the line being read.
RECURSIVE splitlines_from(_, _, _, _)
splitlines_from(s, i, cur, acc) ==
    IF i > Len(s) THEN (IF cur = "" THEN acc ELSE Append(acc, cur))
    ELSE IF CharAt(s, i) = "\r" /\ i < Len(s) /\ CharAt(s, i + 1) = "\n"
         THEN splitlines_from(s, i + 2, "", Append(acc, cur))
    ELSE IF CharAt(s, i) \in {"\n", "\r"}
         THEN splitlines_from(s, i + 1, "", Append(acc, cur))
    ELSE splitlines_from(s, i + 1, cur \o CharAt(s, i), acc)

splitlines(s) == splitlines_from(s, 1, "", <<>>)

\* ', '.join(items)
RECURSIVE join(_)
join(items) ==
    IF items = <<>> THEN ""
    ELSE IF Len(items) = 1 THEN items[1]
    ELSE items[1] \o ", " \o join(Tail(items))

\* [kw for kw in keywords if kw in content_upper]
found_in(keywords, content_upper) ==
    SelectSeq(keywords, LAMBDA kw : contains(kw, content_upper))

(***************************************************************************)
(* re.search(KEYWORD \s+ quote? ([^...]+) quote?, sql_content,            *)
(* re.IGNORECASE), where quote is the back-quote character:                *)
(* the identifier captured by group 1 at the leftmost position where the   *)
(* pattern matches, as <<identifier>>, or <<>> when there is no match.     *)
(* stop is the set of characters the identifier class excludes.            *)
(***************************************************************************)
RECURSIVE skip_while(_, _, _)
skip_while(s, i, chars) ==
    IF i <= Len(s) /\ CharAt(s, i) \in chars THEN skip_while(s, i + 1, chars) ELSE i

RECURSIVE skip_until(_, _, _)
skip_until(s, i, chars) ==
    IF i <= Len(s) /\ CharAt(s, i) \notin chars THEN skip_until(s, i + 1, chars) ELSE i

match_at(keyword, s, i, stop) ==
    LET j == i + Len(keyword)                       \* after the keyword
        p == skip_while(s, j, Whitespace)           \* after \s+
        q == IF p <= Len(s) /\ CharAt(s, p) = Backquote THEN p + 1 ELSE p   \* after the optional quote
        e == skip_until(s, q, stop)                 \* after the identifier
    IN  IF /\ i + Len(keyword) - 1 <= Len(s)
           /\ upper(SubSeq(s, i, j - 1)) = keyword
           /\ p > j
           /\ e > q
        THEN <<SubSeq(s, q, e - 1)>>
        ELSE <<>>

RECURSIVE search_from(_, _, _, _)
search_from(keyword, s, i, stop) ==
    IF i > Len(s) THEN <<>>
    ELSE IF match_at(keyword, s, i, stop) # <<>> THEN match_at(keyword, s, i, stop)
    ELSE search_from(keyword, s, i + 1, stop)

re_search(keyword, s, stop) == search_from(keyword, s, 1, stop)

NameStop == Whitespace \cup {Backquote, "("}     \* the class excluding quote, \s and (
AlterStop == Whitespace \cup {Backquote}          \* the class excluding quote and \s

(***************************************************************************)
(* The validation rules.  A verdict is the pair (is_valid, message).       *)
(***************************************************************************)
Verdict(ok, msg) == [ok |-> ok, msg |-> msg]

\* validate_procedure_function rejecting a procedure only when BEGIN and END
\* are both missing.
validate_procedure_function_lenient(sql_content) ==
    LET content_upper == upper(sql_content)
        procedure_match == re_search("CREATE PROCEDURE", sql_content, NameStop)
        function_match == re_search("CREATE FUNCTION", sql_content, NameStop)
    IN  IF contains("CREATE PROCEDURE", content_upper)
        THEN IF procedure_match = <<>>
             THEN Verdict(FALSE, "Invalid procedure name or structure")
             ELSE IF ~contains("BEGIN", content_upper) /\ ~contains("END", content_upper)
             THEN Verdict(FALSE, "Procedure missing BEGIN/END block")
             ELSE Verdict(TRUE, "Valid stored procedure: " \o procedure_match[1])
        ELSE IF contains("CREATE FUNCTION", content_upper)
        THEN IF function_match = <<>>
             THEN Verdict(FALSE, "Invalid function name or structure")
             ELSE IF ~contains("RETURNS", content_upper)
             THEN Verdict(FALSE, "Function missing RETURNS clause")
             ELSE Verdict(TRUE, "Valid function: " \o function_match[1])
        ELSE Verdict(FALSE, "Not a valid procedure or function")

validate_procedure_function(sql_content) ==
    LET content_upper == upper(sql_content)
        procedure_match == re_search("CREATE PROCEDURE", sql_content, NameStop)
        function_match == re_search("CREATE FUNCTION", sql_content, NameStop)
    IN  IF contains("CREATE PROCEDURE", content_upper)
        THEN IF procedure_match = <<>>
             THEN Verdict(FALSE, "Invalid procedure name or structure")
             ELSE IF ~contains("BEGIN", content_upper) \/ ~contains("END", content_upper)
             THEN Verdict(FALSE, "Procedure missing BEGIN/END block")
             ELSE Verdict(TRUE, "Valid stored procedure: " \o procedure_match[1])
        ELSE IF contains("CREATE FUNCTION", content_upper)
        THEN IF function_match = <<>>
             THEN Verdict(FALSE, "Invalid function name or structure")
             ELSE IF ~contains("RETURNS", content_upper)
             THEN Verdict(FALSE, "Function missing RETURNS clause")
             ELSE Verdict(TRUE, "Valid function: " \o function_match[1])
        ELSE Verdict(FALSE, "Not a valid procedure or function")

validate_table_script(sql_content) ==
    LET content_upper == upper(sql_content)
        table_match == re_search("CREATE TABLE", sql_content, NameStop)
        alter_match == re_search("ALTER TABLE", sql_content, AlterStop)
    IN  IF contains("CREATE TABLE", content_upper)
        THEN IF table_match = <<>>
             THEN Verdict(FALSE, "Invalid table name or structure")
             ELSE IF ~contains("(", sql_content) \/ ~contains(")", sql_content)
             THEN Verdict(FALSE, "Table missing column definitions")
             ELSE Verdict(TRUE, "Valid table creation: " \o table_match[1])
        ELSE IF contains("ALTER TABLE", content_upper)
        THEN IF alter_match = <<>>
             THEN Verdict(FALSE, "Invalid ALTER TABLE structure")
             ELSE Verdict(TRUE, "Valid table alteration: " \o alter_match[1])
        ELSE Verdict(FALSE, "Not a valid table script")

\* validate_basic_sql with the INSERT check ahead of the SELECT check.
validate_basic_sql_insert_first(sql_content) ==
    LET content_upper == upper(sql_content)
    IN  IF contains("INSERT", content_upper) /\ ~contains("INTO", content_upper)
        THEN Verdict(FALSE, "INSERT statement missing INTO clause")
        ELSE IF /\ contains("SELECT", content_upper)
                /\ ~contains("FROM", content_upper) /\ ~contains("DUAL", content_upper)
        THEN Verdict(FALSE, "SELECT statement missing FROM clause")
        ELSE IF contains("UPDATE", content_upper) /\ ~contains("SET", content_upper)
        THEN Verdict(FALSE, "UPDATE statement missing SET clause")
        ELSE IF contains("DELETE", content_upper) /\ ~contains("FROM", content_upper)
        THEN Verdict(FALSE, "DELETE statement missing FROM clause")
        ELSE Verdict(TRUE, "Valid SQL statements")

validate_basic_sql(sql_content) ==
    LET content_upper == upper(sql_content)
    IN  IF /\ contains("SELECT", content_upper)
           /\ ~contains("FROM", content_upper) /\ ~contains("DUAL", content_upper)
        THEN Verdict(FALSE, "SELECT statement missing FROM clause")
        ELSE IF contains("INSERT", content_upper) /\ ~contains("INTO", content_upper)
        THEN Verdict(FALSE, "INSERT statement missing INTO clause")
        ELSE IF contains("UPDATE", content_upper) /\ ~contains("SET", content_upper)
        THEN Verdict(FALSE, "UPDATE statement missing SET clause")
        ELSE IF contains("DELETE", content_upper) /\ ~contains("FROM", content_upper)
        THEN Verdict(FALSE, "DELETE statement missing FROM clause")
        ELSE Verdict(TRUE, "Valid SQL statements")

migration_keywords == <<"CREATE", "ALTER", "INSERT", "UPDATE", "DELETE", "DROP">>

validate_migration_script(sql_content) ==
    LET found_keywords == found_in(migration_keywords, upper(sql_content))
    IN  IF found_keywords = <<>>
        THEN Verdict(FALSE, "Migration script contains no valid SQL operations")
        ELSE Verdict(TRUE, "Valid migration script with operations: "
                           \o join(found_keywords))

sql_keywords ==
    <<"SELECT", "INSERT", "UPDATE", "DELETE", "CREATE", "ALTER", "DROP",
      "FROM", "WHERE", "JOIN", "INNER", "LEFT", "RIGHT", "OUTER",
      "GROUP BY", "ORDER BY", "HAVING", "LIMIT">>

validate_generic_sql(sql_content) ==
    LET found_keywords == found_in(sql_keywords, upper(sql_content))
    IN  IF found_keywords = <<>>
        THEN Verdict(FALSE, "No SQL keywords found")
        ELSE Verdict(TRUE, "Valid SQL content with keywords: " \o join(found_keywords))

(***************************************************************************)
(* validate_sql_file_content.  parsed is what sqlparse.parse(sql_content)  *)
(* did: "statements" (a non-empty tuple), "nothing" (an empty tuple) or    *)
(* "error" (it raised).  The rule field records which rule produced the    *)
(* verdict ("none" when the function returned before the dispatch); the    *)
(* callers read ok and msg only.                                           *)
(***************************************************************************)
ParseOutcomes == {"statements", "nothing", "error"}

ParseErrorText == "Maximum recursion depth exceeded"

\* classify with the path heuristic tried before the DML keywords.
classify_path_first(content_upper, file_path) ==
    IF contains("CREATE PROCEDURE", content_upper) \/ contains("CREATE FUNCTION", content_upper)
    THEN "procedure_function"
    ELSE IF contains("CREATE TABLE", content_upper) \/ contains("ALTER TABLE", content_upper)
    THEN "table"
    ELSE IF contains("migration", lower(file_path)) \/ contains("script", lower(file_path))
    THEN "migration"
    ELSE IF \E keyword \in {"SELECT", "INSERT", "UPDATE", "DELETE"} :
                contains(keyword, content_upper)
    THEN "basic"
    ELSE "generic"

classify(content_upper, file_path) ==
    IF contains("CREATE PROCEDURE", content_upper) \/ contains("CREATE FUNCTION", content_upper)
    THEN "procedure_function"
    ELSE IF contains("CREATE TABLE", content_upper) \/ contains("ALTER TABLE", content_upper)
    THEN "table"
    ELSE IF \E keyword \in {"SELECT", "INSERT", "UPDATE", "DELETE"} :
                contains(keyword, content_upper)
    THEN "basic"
    ELSE IF contains("migration", lower(file_path)) \/ contains("script", lower(file_path))
    THEN "migration"
    ELSE "generic"

apply_rule(rule, sql_content) ==
    CASE rule = "procedure_function" -> validate_procedure_function(sql_content)
      [] rule = "table"              -> validate_table_script(sql_content)
      [] rule = "basic"              -> validate_basic_sql(sql_content)
      [] rule = "migration"          -> validate_migration_script(sql_content)
      [] rule = "generic"            -> validate_generic_sql(sql_content)

ByRule(rule, v) == [ok |-> v.ok, msg |-> v.msg, rule |-> rule]

validate_sql_file_content(sql_content, file_path, parsed) ==
    IF strip(sql_content) = ""
    THEN ByRule("none", Verdict(FALSE, "File is empty"))
    ELSE IF parsed = "error"
    THEN ByRule("none", Verdict(FALSE, "SQL parsing error: " \o ParseErrorText))
    ELSE IF parsed = "nothing"
    THEN ByRule("none", Verdict(FALSE, "Failed to parse SQL content"))
    ELSE LET rule == classify(upper(sql_content), file_path)
         IN  ByRule(rule, apply_rule(rule, sql_content))

(***************************************************************************)
(* validate_sql_file.  file is what the file system holds at file_path     *)
(* during the call: kind ("absent", "dir" or "file"), whether open()       *)
(* succeeds, whether the bytes decode as UTF-8, the text the successful    *)
(* decoding yields and the byte length.  The steps field records the       *)
(* checks the call ran, in order; the callers read ok and msg only.        *)
(***************************************************************************)
FileEntry(kind, readable, utf8, content) ==
    [kind |-> kind, readable |-> readable, utf8 |-> utf8, content |-> content,
     size |-> Len(content)]

OpenErrorText(file_path) == "[Errno 13] Permission denied: '" \o file_path \o "'"

Checked(steps, rule, ok, msg) ==
    [raised |-> FALSE, ok |-> ok, msg |-> msg, rule |-> rule, steps |-> steps]

\* An exception leaving the try block, str(e) being text.
Raised(steps, text) ==
    [raised |-> TRUE, ok |-> FALSE, msg |-> text, rule |-> "none", steps |-> steps]

decorate(message, file_size, line_count) ==
    message \o " (Size: " \o ToString(file_size) \o " bytes, Lines: "
            \o ToString(line_count) \o ")"

read_steps(file) == IF file.utf8 THEN <<"read">> ELSE <<"read", "read_latin1">>

\* The try block with the extension check ahead of the existence check.
validate_sql_file_try_extension_first(file_path, file, parsed) ==
    IF ~endswith(lower(file_path), ".sql")
    THEN Checked(<<"extension">>, "none", FALSE, "Not a SQL file: " \o file_path)
    ELSE IF file.kind = "absent"
    THEN Checked(<<"extension", "exists">>, "none", FALSE, "File not found: " \o file_path)
    ELSE IF file.kind # "file"
    THEN Checked(<<"extension", "exists", "isfile">>, "none", FALSE,
                 "Not a regular file: " \o file_path)
    ELSE IF ~file.readable
    THEN Raised(<<"extension", "exists", "isfile", "read">>, OpenErrorText(file_path))
    ELSE IF strip(file.content) = ""
    THEN Checked(<<"extension", "exists", "isfile">> \o read_steps(file) \o <<"empty">>,
                 "none", FALSE, "File is empty")
    ELSE LET v == validate_sql_file_content(file.content, file_path, parsed)
         IN  Checked(<<"extension", "exists", "isfile">> \o read_steps(file)
                        \o <<"empty", "content">>,
                     v.rule, v.ok,
                     decorate(v.msg, file.size, Len(splitlines(file.content))))

\* The try block of validate_sql_file.
validate_sql_file_try(file_path, file, parsed) ==
    IF file.kind = "absent"
    THEN Checked(<<"exists">>, "none", FALSE, "File not found: " \o file_path)
    ELSE IF file.kind # "file"
    THEN Checked(<<"exists", "isfile">>, "none", FALSE, "Not a regular file: " \o file_path)
    ELSE IF ~endswith(lower(file_path), ".sql")
    THEN Checked(<<"exists", "isfile", "extension">>, "none", FALSE,
                 "Not a SQL file: " \o file_path)
    ELSE IF ~file.readable
    THEN Raised(<<"exists", "isfile", "extension", "read">>, OpenErrorText(file_path))
    ELSE IF strip(file.content) = ""
    THEN Checked(<<"exists", "isfile", "extension">> \o read_steps(file) \o <<"empty">>,
                 "none", FALSE, "File is empty")
    ELSE LET v == validate_sql_file_content(file.content, file_path, parsed)
         IN  Checked(<<"exists", "isfile", "extension">> \o read_steps(file)
                        \o <<"empty", "content">>,
                     v.rule, v.ok,
                     decorate(v.msg, file.size, Len(splitlines(file.content))))

\* The except clause of validate_sql_file.
except_to_verdict(file_path, r) ==
    IF r.raised
    THEN Checked(r.steps, "none", FALSE,
                 "Error processing file " \o file_path \o ": " \o r.msg)
    ELSE r

validate_sql_file(file_path, file, parsed) ==
    except_to_verdict(file_path, validate_sql_file_try(file_path, file, parsed))

(***************************************************************************)
(* get_changed_files and get_sql_files.                                    *)
(***************************************************************************)
GitOutcomes == {"ok", "failed", "undecodable"}

\* get_changed_files letting the failure of git escape.
get_changed_files_reraise(outcome, output) ==
    IF outcome = "ok"
    THEN [raised |-> FALSE, value |-> splitlines(strip(output))]
    ELSE [raised |-> TRUE, value |-> <<>>]

\* value is the list returned; raised says the call raised instead (the
\* function catches CalledProcessError only, not the UnicodeDecodeError of
\* output.decode).
get_changed_files(outcome, output) ==
    IF outcome = "failed" THEN [raised |-> FALSE, value |-> <<>>]
    ELSE IF outcome = "undecodable" THEN [raised |-> TRUE, value |-> <<>>]
    ELSE [raised |-> FALSE, value |-> splitlines(strip(output))]

RECURSIVE get_sql_files_from(_, _, _)
get_sql_files_from(changed_files_, i, sql_files_) ==
    IF i > Len(changed_files_) THEN sql_files_
    ELSE IF endswith(strip(changed_files_[i]), ".sql")
    THEN get_sql_files_from(changed_files_, i + 1, Append(sql_files_, strip(changed_files_[i])))
    ELSE get_sql_files_from(changed_files_, i + 1, sql_files_)

\* get_sql_files appending the line as git printed it, untrimmed.
get_sql_files_untrimmed(changed_files_) ==
    SelectSeq(changed_files_, LAMBDA file : endswith(strip(file), ".sql"))

\* get_sql_files testing the suffix without regard to case.
get_sql_files_any_case(changed_files_) ==
    SelectSeq([i \in 1..Len(changed_files_) |-> strip(changed_files_[i])],
              LAMBDA file : endswith(lower(file), ".sql"))

get_sql_files(changed_files_) == get_sql_files_from(changed_files_, 1, <<>>)

(***************************************************************************)
(* Inputs of the model.                                                    *)
(***************************************************************************)
\* Lines `git diff --name-only` may print: file names as they are on disk.
GitPaths == {"a.sql", "b.py", "C.SQL", "d.sql ", "Script.sql"}

RECURSIVE git_lines(_)
git_lines(paths) == IF paths = <<>> THEN "" ELSE Head(paths) \o "\n" \o git_lines(Tail(paths))

GitOutputs == {git_lines(ps) : ps \in UNION {[1..n -> GitPaths] : n \in 0..MaxFiles}}

\* Contents of the files on disk.
FileTexts == {"", " \n", "SELECT 1", "select 1 from dual\n",
              "CREATE PROCEDURE foo()\nBEGIN\nEND\n", "-- x\n"}

NoFile == FileEntry("absent", FALSE, FALSE, "")

Files ==
    {NoFile, FileEntry("dir", FALSE, FALSE, ""), FileEntry("file", FALSE, TRUE, "SELECT 1"),
     FileEntry("file", TRUE, FALSE, "DROP TABLE caf\n")}
    \cup {FileEntry("file", TRUE, TRUE, t) : t \in FileTexts}

\* The paths main can hand to validate_sql_file, and the paths a direct call
\* is given.
CallPaths == GitPaths \cup {strip(p) : p \in GitPaths}

\* validate_sql_file tabulated over the inputs of the model.
validate_sql_file_table ==
    [file_path \in CallPaths |-> [file \in Files |-> [parsed \in ParseOutcomes |->
        validate_sql_file(file_path, file, parsed)]]]

(***************************************************************************)
(* main().                                                                 *)
(***************************************************************************)
\* The loop body counting every file as valid.
count_verdict_every_file(valid_count_, failed_files_, file_path, is_valid) ==
    IF is_valid
    THEN [valid_count |-> valid_count_ + 1, failed_files |-> failed_files_]
    ELSE [valid_count |-> valid_count_ + 1, failed_files |-> Append(failed_files_, file_path)]

\* The body of the for loop after validate_sql_file has returned is_valid.
count_verdict(valid_count_, failed_files_, file_path, is_valid) ==
    IF is_valid
    THEN [valid_count |-> valid_count_ + 1, failed_files |-> failed_files_]
    ELSE [valid_count |-> valid_count_, failed_files |-> Append(failed_files_, file_path)]

\* The loop leaving at the first failing file.
for_next_break(i, sql_files_, is_valid) ==
    IF i < Len(sql_files_) /\ is_valid THEN "loop" ELSE "summary"

\* Where the for loop goes after its i-th iteration.
for_next(i, sql_files_, is_valid) == IF i < Len(sql_files_) THEN "loop" ELSE "summary"

\* The summary succeeding as soon as one file passed.
summary_exit_any(valid_count_, total_count_) == IF valid_count_ > 0 THEN 0 ELSE 1

\* The decision of the summary.
summary_exit(valid_count_, total_count_) == IF valid_count_ = total_count_ THEN 0 ELSE 1

\* Lines 257-261 of main, and the outer except clause when the call raises.
MainGetChangedFiles ==
    /\ pc = "start"
    /\ LET r == get_changed_files(git_outcome, git_output)
       IN  IF r.raised
           THEN /\ top_error' = TRUE
                /\ exit_code' = 1
                /\ pc' = "done"
                /\ UNCHANGED changed_files
           ELSE /\ changed_files' = r.value
                /\ top_error' = FALSE
                /\ IF r.value = <<>>
                   THEN exit_code' = 0 /\ pc' = "done"
                   ELSE exit_code' = exit_code /\ pc' = "filter"
    /\ UNCHANGED <<git_outcome, git_output, sql_files, idx, valid_count, total_count,
                   failed_files, validated, verdicts>>
    /\ UNCHANGED callVars

\* Lines 264-278 of main.
MainGetSqlFiles ==
    /\ pc = "filter"
    /\ sql_files' = get_sql_files(changed_files)
    /\ IF sql_files' = <<>>
       THEN /\ exit_code' = 0
            /\ pc' = "done"
            /\ UNCHANGED <<valid_count, total_count, failed_files>>
       ELSE /\ valid_count' = 0
            /\ total_count' = Len(sql_files')
            /\ failed_files' = <<>>
            /\ pc' = "loop"
            /\ UNCHANGED exit_code
    /\ UNCHANGED <<git_outcome, git_output, changed_files, idx, top_error, validated, verdicts>>
    /\ UNCHANGED callVars

\* One iteration of the for loop, lines 280-292: the file system presents
\* some entry at the path and sqlparse does one of the things it can do.
MainValidateFile ==
    /\ pc = "loop"
    /\ \E file \in Files, parsed \in ParseOutcomes :
          LET file_path == sql_files[idx + 1]
              r == validate_sql_file_table[file_path][file][parsed]
              c == count_verdict(valid_count, failed_files, file_path, r.ok)
          IN  /\ fn' = "validate_sql_file"
              /\ arg_path' = file_path
              /\ arg_file' = file
              /\ arg_text' = file.content
              /\ arg_parse' = parsed
              /\ ret' = r
              /\ validated' = Append(validated, file_path)
              /\ idx' = idx + 1
              /\ IF r.raised
                 THEN /\ top_error' = TRUE
                      /\ exit_code' = 1
                      /\ pc' = "done"
                      /\ UNCHANGED <<valid_count, failed_files, verdicts>>
                 ELSE /\ verdicts' = Append(verdicts, r.ok)
                      /\ valid_count' = c.valid_count
                      /\ failed_files' = c.failed_files
                      /\ pc' = for_next(idx + 1, sql_files, r.ok)
                      /\ UNCHANGED <<top_error, exit_code>>
    /\ UNCHANGED <<git_outcome, git_output, changed_files, sql_files, total_count>>

\* Lines 295-313 of main.
MainSummary ==
    /\ pc = "summary"
    /\ exit_code' = summary_exit(valid_count, total_count)
    /\ pc' = "done"
    /\ UNCHANGED <<git_outcome, git_output, changed_files, sql_files, idx, valid_count,
                   total_count, failed_files, top_error, validated, verdicts>>
    /\ UNCHANGED callVars

NoCall ==
    /\ fn = "none"
    /\ arg_path = ""
    /\ arg_text = ""
    /\ arg_file = NoFile
    /\ arg_parse = "statements"
    /\ ret = Checked(<<>>, "none", FALSE, "")

MainStart ==
    /\ pc = "start"
    /\ changed_files = <<>>
    /\ sql_files = <<>>
    /\ idx = 0
    /\ valid_count = 0
    /\ total_count = 0
    /\ failed_files = <<>>
    /\ exit_code = -1
    /\ top_error = FALSE
    /\ validated = <<>>
    /\ verdicts = <<>>

Init ==
    /\ git_outcome \in GitOutcomes
    /\ git_output \in (IF git_outcome = "ok" THEN GitOutputs ELSE {""})
    /\ MainStart
    /\ NoCall

Next == MainGetChangedFiles \/ MainGetSqlFiles \/ MainValidateFile \/ MainSummary

Spec == Init /\ [][Next]_vars

\* main runs to completion: it is single-threaded and nothing suspends it.
FairSpec == Spec /\ WF_vars(Next)

(***************************************************************************)
(* validate_sql_file called on its own, with any path and any file.        *)
(***************************************************************************)
MainIdle ==
    /\ pc = "call"
    /\ git_outcome = "ok"
    /\ git_output = ""
    /\ changed_files = <<>>
    /\ sql_files = <<>>
    /\ idx = 0
    /\ valid_count = 0
    /\ total_count = 0
    /\ failed_files = <<>>
    /\ exit_code = -1
    /\ top_error = FALSE
    /\ validated = <<>>
    /\ verdicts = <<>>

InitFile ==
    /\ MainIdle
    /\ fn = "none"
    /\ arg_path \in CallPaths
    /\ arg_file \in Files
    /\ arg_text = arg_file.content
    /\ arg_parse = "statements"
    /\ ret = Checked(<<>>, "none", FALSE, "")

CallValidateSqlFile ==
    /\ pc = "call"
    /\ fn = "none"
    /\ \E parsed \in ParseOutcomes :
          /\ arg_parse' = parsed
          /\ ret' = validate_sql_file_table[arg_path][arg_file][parsed]
    /\ fn' = "validate_sql_file"
    /\ UNCHANGED <<arg_path, arg_text, arg_file>>
    /\ UNCHANGED mainVars

NextFile == CallValidateSqlFile

SpecFile == InitFile /\ [][NextFile]_vars

(***************************************************************************)
(* The content rules called on their own, with generated documents: the    *)
(* words of one vocabulary, at most MaxWords of them, joined by spaces.    *)
(***************************************************************************)
RECURSIVE join_words(_)
join_words(ws) ==
    IF ws = <<>> THEN ""
    ELSE IF Len(ws) = 1 THEN ws[1]
    ELSE ws[1] \o " " \o join_words(Tail(ws))

WordDocs(words) == {join_words(ws) : ws \in UNION {[1..n -> words] : n \in 0..MaxWords}}

DmlWords == {"SELECT", "FROM", "dual", "INSERT", "INTO", "Update", "SET", "DELETE"}

ProcWords == {"CREATE PROCEDURE foo(a)", "create procedure 'p1'", "CREATE PROCEDURE", "(",
              "BEGIN", "end", "x"}

MixWords == {"CREATE FUNCTION f", "RETURNS", "CREATE TABLE t (", ")", "ALTER TABLE t",
             "select", "-- x", "CREATE PROCEDURE p"}

Docs == WordDocs(DmlWords) \cup WordDocs(ProcWords) \cup WordDocs(MixWords)

ContentPaths == {"a.sql", "db/Migrations/m1.sql", "Script.sql"}

InitContent ==
    /\ MainIdle
    /\ fn = "none"
    /\ arg_path = ""
    /\ arg_text \in Docs
    /\ arg_file = NoFile
    /\ arg_parse = "statements"
    /\ ret = Verdict(FALSE, "")

CallValidateSqlFileContent ==
    /\ pc = "call"
    /\ fn = "none"
    /\ \E file_path \in ContentPaths, parsed \in ParseOutcomes :
          /\ arg_path' = file_path
          /\ arg_parse' = parsed
          /\ ret' = validate_sql_file_content(arg_text, file_path, parsed)
    /\ fn' = "validate_sql_file_content"
    /\ UNCHANGED <<arg_text, arg_file>>
    /\ UNCHANGED mainVars

CallValidateProcedureFunction ==
    /\ pc = "call"
    /\ fn = "none"
    /\ ret' = validate_procedure_function(arg_text)
    /\ fn' = "validate_procedure_function"
    /\ UNCHANGED <<arg_path, arg_text, arg_file, arg_parse>>
    /\ UNCHANGED mainVars

CallValidateBasicSql ==
    /\ pc = "call"
    /\ fn = "none"
    /\ ret' = validate_basic_sql(arg_text)
    /\ fn' = "validate_basic_sql"
    /\ UNCHANGED <<arg_path, arg_text, arg_file, arg_parse>>
    /\ UNCHANGED mainVars

NextContent ==
    CallValidateSqlFileContent \/ CallValidateProcedureFunction \/ CallValidateBasicSql

SpecContent == InitContent /\ [][NextContent]_vars

(***************************************************************************)
(* Properties.                                                             *)
(***************************************************************************)
Range(seq) == {seq[i] : i \in 1..Len(seq)}

Failing(result, message) == ~result.ok /\ result.msg = message

\* The paths among paths[1..n] whose verdict oks[i] is failing, in order.
RECURSIVE FailingPaths(_, _, _)
FailingPaths(paths, oks, n) ==
    IF n = 0 THEN <<>>
    ELSE IF oks[n] THEN FailingPaths(paths, oks, n - 1)
    ELSE Append(FailingPaths(paths, oks, n - 1), paths[n])

\* The trimmed changed paths ending in ".sql", in order.
TrimmedSqlPaths(changed) ==
    SelectSeq([i \in 1..Len(changed) |-> strip(changed[i])],
              LAMBDA path : Len(path) >= 4 /\ SubSeq(path, Len(path) - 3, Len(path)) = ".sql")

\* C1: when main has exited, the exit code is 1 if the outer handler caught an
\* error or some validated file got a failing verdict, and 0 if the filtered
\* list was empty or every verdict passed; before the exit no code is set.
C1_ExitCode ==
    /\ pc # "done" => exit_code = -1
    /\ pc = "done" =>
        /\ top_error => exit_code = 1
        /\ ~top_error /\ (\E i \in 1..Len(verdicts) : ~verdicts[i]) => exit_code = 1
        /\ ~top_error /\ sql_files = <<>> => exit_code = 0
        /\ ~top_error /\ (\A i \in 1..Len(verdicts) : verdicts[i]) => exit_code = 0

C1_Witness ==
    /\ pc = "done"
    /\ exit_code = 1
    /\ ~top_error
    /\ \E i, j \in 1..Len(verdicts) : verdicts[i] /\ ~verdicts[j]

\* C2: the paths handed to validate_sql_file are always the first idx paths of
\* the filtered list, in order and once each; the summary and the exit that
\* follows it happen only when all of the list has been validated; and a run
\* that entered the loop eventually exits with every path validated, whatever
\* the verdicts were.
C2_EveryFileValidatedInOrder ==
    /\ [](validated = SubSeq(sql_files, 1, idx))
    /\ []((pc = "summary" \/ (pc = "done" /\ sql_files # <<>>)) => validated = sql_files)
    /\ (pc = "loop") ~> (pc = "done" /\ validated = sql_files /\ Len(verdicts) = Len(sql_files))

C2_Witness ==
    /\ pc = "done"
    /\ Len(validated) = 2
    /\ ~verdicts[1]
    /\ validated = sql_files

\* C3: the paths validated are, at every point of the loop, a prefix of the
\* trimmed changed paths ending in ".sql" (in their order), and at the exit
\* all of them; when there is none, nothing is validated and the run exits 0.
C3_OnlySqlPathsValidated ==
    ~top_error =>
        /\ Len(validated) <= Len(TrimmedSqlPaths(changed_files))
        /\ validated = SubSeq(TrimmedSqlPaths(changed_files), 1, Len(validated))
        /\ pc = "done" => validated = TrimmedSqlPaths(changed_files)
        /\ pc = "done" /\ TrimmedSqlPaths(changed_files) = <<>> =>
              exit_code = 0 /\ fn = "none"

C3_Witness ==
    /\ pc = "done"
    /\ ~top_error
    /\ changed_files = <<"d.sql ", "b.py">>
    /\ validated = <<"d.sql">>

\* C6: when git fails, get_changed_files returns the empty list without
\* raising, and main exits 0 without validating anything.
C6_GitFailureExitsZero ==
    git_outcome = "failed" /\ pc # "start" =>
        /\ pc = "done"
        /\ exit_code = 0
        /\ ~top_error
        /\ changed_files = <<>>
        /\ validated = <<>>
        /\ fn = "none"

C6_Witness == git_outcome = "failed" /\ pc = "done" /\ exit_code = 0

\* C7: after k files, valid_count + len(failed_files) = k; at the summary
\* total = pass + fail with fail = len(failed_files); failed_files is the
\* validated paths with a failing verdict, in order, once per occurrence.
C7_Counters ==
    ~top_error /\ pc \in {"loop", "summary", "done"} /\ sql_files # <<>> =>
        /\ Len(verdicts) = idx
        /\ valid_count + Len(failed_files) = idx
        /\ failed_files = FailingPaths(validated, verdicts, idx)
        /\ valid_count = Cardinality({i \in 1..idx : verdicts[i]})
        /\ pc \in {"summary", "done"} =>
              /\ total_count = idx
              /\ total_count = valid_count + Len(failed_files)
              /\ total_count - valid_count = Len(failed_files)

C7_Witness ==
    /\ pc = "summary"
    /\ failed_files = <<"a.sql", "a.sql">>

\* C10: every path the filter emits ends in ".sql" whatever the case, so no
\* call of validate_sql_file made by main answers "Not a SQL file"; a changed
\* path whose suffix matches only when case is ignored is one
\* validate_sql_file accepts, yet main never validates it.
C10_ExtensionChecksAgree ==
    /\ \A i \in 1..Len(sql_files) :
          /\ Len(sql_files[i]) >= 4
          /\ lower(SubSeq(sql_files[i], Len(sql_files[i]) - 3, Len(sql_files[i]))) = ".sql"
    /\ fn = "validate_sql_file" =>
          /\ ret.msg # "Not a SQL file: " \o arg_path
          /\ "extension" \in Range(ret.steps) => Len(ret.steps) > 3
    /\ \A i \in 1..Len(changed_files) :
          LET path == strip(changed_files[i])
          IN  /\ Len(path) >= 4
              /\ lower(SubSeq(path, Len(path) - 3, Len(path))) = ".sql"
              /\ SubSeq(path, Len(path) - 3, Len(path)) # ".sql"
              => /\ validate_sql_file(path, FileEntry("file", TRUE, TRUE, "SELECT 1 FROM t"),
                                      "statements").ok
                 /\ path \notin Range(validated)

C10_Witness ==
    /\ pc = "done"
    /\ changed_files = <<"C.SQL", "a.sql">>
    /\ validated = <<"a.sql">>
    /\ exit_code = 0

\* C5: validate_sql_file answers with the failure of the first failing check in
\* the order existence, regular file, extension, read, emptiness, having run
\* no later check; the content rules run only when all five pass; the call
\* never raises.
C5_ChecksInOrder ==
    fn = "validate_sql_file" =>
        LET is_file == arg_file.kind = "file"
            is_sql == /\ Len(arg_path) >= 4
                      /\ lower(SubSeq(arg_path, Len(arg_path) - 3, Len(arg_path))) = ".sql"
            blank == \A i \in 1..Len(arg_file.content) :
                        CharAt(arg_file.content, i) \in Whitespace
        IN  /\ ~ret.raised
            /\ ret.ok \in BOOLEAN
            /\ arg_file.kind = "absent" =>
                  /\ Failing(ret, "File not found: " \o arg_path)
                  /\ ret.steps = <<"exists">>
            /\ arg_file.kind = "dir" =>
                  /\ Failing(ret, "Not a regular file: " \o arg_path)
                  /\ ret.steps = <<"exists", "isfile">>
            /\ is_file /\ ~is_sql =>
                  /\ Failing(ret, "Not a SQL file: " \o arg_path)
                  /\ ret.steps = <<"exists", "isfile", "extension">>
            /\ is_file /\ is_sql /\ ~arg_file.readable =>
                  /\ ~ret.ok
                  /\ ret.steps = <<"exists", "isfile", "extension", "read">>
            /\ is_file /\ is_sql /\ arg_file.readable /\ blank =>
                  /\ Failing(ret, "File is empty")
                  /\ ret.steps[Len(ret.steps)] = "empty"
            /\ ("content" \in Range(ret.steps) \/ ret.rule # "none")
                  => is_file /\ is_sql /\ arg_file.readable /\ ~blank
            /\ is_file /\ is_sql /\ arg_file.readable /\ ~blank
                  => ret.steps[Len(ret.steps)] = "content"

C5_Witness ==
    /\ fn = "validate_sql_file"
    /\ arg_file.kind = "file"
    /\ arg_file.content = ""
    /\ arg_path = "b.py"
    /\ ret.msg = "Not a SQL file: b.py"

\* A statement-bearing document: not blank, and parsed into statements.
NonEmptyDocument == strip(arg_text) # "" /\ arg_parse = "statements"

\* C4: for a non-empty document validate_sql_file_content answers with the
\* verdict of exactly one rule, the first in the order procedure/function,
\* table, basic DML, migration (by path), generic whose condition holds; a
\* document that is blank or that sqlparse does not parse reaches no rule.
C4_FirstMatchWins ==
    /\ fn = "validate_sql_file_content" /\ ~NonEmptyDocument => ret.rule = "none" /\ ~ret.ok
    /\ fn = "validate_sql_file_content" /\ NonEmptyDocument =>
           LET u == upper(arg_text)
               proc == contains("CREATE PROCEDURE", u) \/ contains("CREATE FUNCTION", u)
               table == contains("CREATE TABLE", u) \/ contains("ALTER TABLE", u)
               dml == \/ contains("SELECT", u) \/ contains("INSERT", u)
                      \/ contains("UPDATE", u) \/ contains("DELETE", u)
               by_path == \/ contains("migration", lower(arg_path))
                          \/ contains("script", lower(arg_path))
               answer == Verdict(ret.ok, ret.msg)
           IN  /\ proc => ret.rule = "procedure_function"
                          /\ answer = validate_procedure_function(arg_text)
               /\ ~proc /\ table => ret.rule = "table" /\ answer = validate_table_script(arg_text)
               /\ ~proc /\ ~table /\ dml =>
                     ret.rule = "basic" /\ answer = validate_basic_sql(arg_text)
               /\ ~proc /\ ~table /\ ~dml /\ by_path =>
                     ret.rule = "migration" /\ answer = validate_migration_script(arg_text)
               /\ ~proc /\ ~table /\ ~dml /\ ~by_path =>
                     ret.rule = "generic" /\ answer = validate_generic_sql(arg_text)

C4_Witness ==
    /\ fn = "validate_sql_file_content"
    /\ NonEmptyDocument
    /\ arg_path = "db/Migrations/m1.sql"
    /\ arg_text = "select -- x"
    /\ ret.rule = "basic"
    /\ ret.msg = "SELECT statement missing FROM clause"

\* The identifier the procedure pattern captures when it matches at position
\* i: after the keyword (in any case) at least one whitespace character, an
\* optional quote, then the longest run of characters that are not
\* whitespace, quote or "(".
ProcedureNameAt(s, i) ==
    LET j == i + Len("CREATE PROCEDURE")
    IN  IF j - 1 > Len(s) \/ upper(SubSeq(s, i, j - 1)) # "CREATE PROCEDURE" THEN {}
        ELSE {SubSeq(s, q, e) : <<q, e>> \in
                {<<q, e>> \in ((j + 1)..Len(s)) \X ((j + 1)..Len(s)) :
                    /\ q <= e
                    /\ \/ \A k \in j..(q - 1) : CharAt(s, k) \in Whitespace
                       \/ /\ q - 1 > j
                          /\ CharAt(s, q - 1) = Backquote
                          /\ \A k \in j..(q - 2) : CharAt(s, k) \in Whitespace
                    /\ \A k \in q..e : CharAt(s, k) \notin NameStop
                    /\ e = Len(s) \/ CharAt(s, e + 1) \in NameStop}}

ProcedureNames(s) ==
    LET starts == {i \in 1..Len(s) : ProcedureNameAt(s, i) # {}}
    IN  IF starts = {} THEN {}
        ELSE ProcedureNameAt(s, CHOOSE i \in starts : \A k \in starts : i <= k)

NamedProcedure ==
    /\ fn = "validate_procedure_function"
    /\ contains("CREATE PROCEDURE", upper(arg_text))
    /\ ProcedureNames(arg_text) # {}

\* C8 as stated: a named procedure fails with the BEGIN/END message if the
\* text lacks both BEGIN and END, and otherwise passes with its name.
C8_Original ==
    NamedProcedure =>
        IF ~contains("BEGIN", upper(arg_text)) /\ ~contains("END", upper(arg_text))
        THEN Failing(ret, "Procedure missing BEGIN/END block")
        ELSE ret.ok /\ \E name \in ProcedureNames(arg_text) : contains(name, ret.msg)

\* C8, amended: a named procedure fails with the BEGIN/END message if the text
\* lacks BEGIN or lacks END, and passes with a message embedding its name
\* when both are present.
C8_BeginAndEndRequired ==
    NamedProcedure =>
        IF ~contains("BEGIN", upper(arg_text)) \/ ~contains("END", upper(arg_text))
        THEN Failing(ret, "Procedure missing BEGIN/END block")
        ELSE /\ ret.ok
             /\ ProcedureNames(arg_text) = {SubSeq(ret.msg, Len("Valid stored procedure: ") + 1,
                                                   Len(ret.msg))}
             /\ \E name \in ProcedureNames(arg_text) : contains(name, ret.msg)

C8_Witness ==
    /\ NamedProcedure
    /\ arg_text = "CREATE PROCEDURE foo(a) BEGIN"
    /\ Failing(ret, "Procedure missing BEGIN/END block")

\* C9: validate_basic_sql fails with the message of the first of SELECT
\* (needs FROM or DUAL), INSERT (needs INTO), UPDATE (needs SET), DELETE
\* (needs FROM) that is present without its companion, and passes with
\* "Valid SQL statements" exactly when there is none.
C9_FirstMissingCompanion ==
    fn = "validate_basic_sql" =>
        LET u == upper(arg_text)
            select == contains("SELECT", u) /\ ~(contains("FROM", u) \/ contains("DUAL", u))
            insert == contains("INSERT", u) /\ ~contains("INTO", u)
            update == contains("UPDATE", u) /\ ~contains("SET", u)
            delete == contains("DELETE", u) /\ ~contains("FROM", u)
        IN  /\ select => Failing(ret, "SELECT statement missing FROM clause")
            /\ ~select /\ insert => Failing(ret, "INSERT statement missing INTO clause")
            /\ ~select /\ ~insert /\ update =>
                  Failing(ret, "UPDATE statement missing SET clause")
            /\ ~select /\ ~insert /\ ~update /\ delete =>
                  Failing(ret, "DELETE statement missing FROM clause")
            /\ ret.ok <=> ~(select \/ insert \/ update \/ delete)
            /\ ret.ok => ret.msg = "Valid SQL statements"

C9_Witness ==
    /\ fn = "validate_basic_sql"
    /\ arg_text = "INSERT SELECT"
    /\ ret.msg = "SELECT statement missing FROM clause"

====
